---- MODULE Spec2Model ----
(***************************************************************************)
(* check-connection: a command-line tool that resolves a host, probes one  *)
(* TCP port and, with --asn, asks whois.cymru.com for the AS that owns the *)
(* resolved address.                                                       *)
(*                                                                         *)
(* The model follows src/cli.js (the canonical program) and the older      *)
(* variant src/unnamed/part_000.  Text is a sequence of one-character      *)
(* strings.  Socket events are the environment's moves: they may fire in   *)
(* every order net.Socket allows (none after destroy(), none after the     *)
(* process has exited); the handlers, the promises they settle and the     *)
(* steps of run() between two awaits are the program's moves.              *)
(***************************************************************************)
EXTENDS Integers, Sequences, FiniteSets, TLC

\* ------------------------------------------------------------------ bounds

\* Longest argument list (process.argv.slice(2)) the model enumerates.
MaxArgs == 3

\* Most 'data' chunks the lookup service sends in one session.
MaxChunks == 2

\* Most pipe-delimited fields of the candidate data row in the parse inputs.
MaxFields == 8

\* ------------------------------------------------------------------ text

\* What String.prototype.trim removes: the WhiteSpace and LineTerminator code
\* points of ECMAScript.  Written here, in order: U+0009 (tab), U+000A (line
\* feed), U+000B (vertical tab), U+000C (form feed), U+000D (carriage return),
\* U+0020 (space), U+00A0 (no-break space), U+1680 (ogham space mark) and
\* U+FEFF (byte order mark).  The remaining ones, U+2000 to U+200A, U+2028,
\* U+2029, U+202F, U+205F and U+3000, cannot be written in a string of this
\* language; no text drawn below holds them.
WhiteSpace == {"\t", "\n", "", "\f", "\r", " ", " ", " ", "﻿"}

\* s.split(d) for a one-character delimiter: always at least one piece.
RECURSIVE SplitOn(_, _)
SplitOn(s, d) ==
  IF \A i \in 1..Len(s) : s[i] # d
  THEN << s >>
  ELSE LET i == CHOOSE k \in 1..Len(s) :
                  s[k] = d /\ \A j \in 1..(k - 1) : s[j] # d
       IN  << SubSeq(s, 1, i - 1) >> \o SplitOn(SubSeq(s, i + 1, Len(s)), d)

\* s.trim()
Trim(s) ==
  LET keep == { i \in 1..Len(s) : s[i] \notin WhiteSpace }
      back == { Len(s) + 1 - i : i \in keep }
  IN  IF keep = {}
      THEN << >>
      ELSE LET lo == CHOOSE i \in keep : \A j \in keep : i <= j
               hi == Len(s) + 1 - (CHOOSE i \in back : \A j \in back : i <= j)
           IN  SubSeq(s, lo, hi)

\* xs.map((x) => x.trim())
MapTrim(xs) == [ i \in 1..Len(xs) |-> Trim(xs[i]) ]

\* xs.filter((l) => l): the empty string is the only falsy string.
FilterNonEmpty(xs) == SelectSeq(xs, LAMBDA l : l # << >>)

\* The value resolve(null) delivers.
NullInfo == [ isNull |-> TRUE ]

\* rawData.split('\n').map(trim).filter(nonempty)
ResponseLines(raw) == FilterNonEmpty(MapTrim(SplitOn(raw, "\n")))

\* row.split('|').map((c) => c.trim())
RowColumns(row) == MapTrim(SplitOn(row, "|"))

\* Mutant of ParseAsn: the row needs more than seven columns.
ParseAsn_MoreThanSeven(raw) ==
  LET lines == ResponseLines(raw)
  IN  IF Len(lines) > 1
      THEN LET columns == RowColumns(lines[2])
           IN  IF Len(columns) > 7
               THEN [ isNull     |-> FALSE,
                      asn        |-> columns[1],
                      ipReported |-> columns[2],
                      prefix     |-> columns[3],
                      cc         |-> columns[4],
                      registry   |-> columns[5],
                      allocated  |-> columns[6],
                      asName     |-> columns[7] ]
               ELSE NullInfo
      ELSE NullInfo

\* Mutant of ParseAsn: the destructuring names prefix and cc in the wrong order.
ParseAsn_SwappedColumns(raw) ==
  LET lines == ResponseLines(raw)
  IN  IF Len(lines) > 1
      THEN LET columns == RowColumns(lines[2])
           IN  IF Len(columns) >= 7
               THEN [ isNull     |-> FALSE,
                      asn        |-> columns[1],
                      ipReported |-> columns[2],
                      prefix     |-> columns[4],
                      cc         |-> columns[3],
                      registry   |-> columns[5],
                      allocated  |-> columns[6],
                      asName     |-> columns[7] ]
               ELSE NullInfo
      ELSE NullInfo

\* The body of the 'end' handler: the value the lookup promise is resolved with.
ParseAsn(raw) ==
  LET lines == ResponseLines(raw)
  IN  IF Len(lines) > 1
      THEN LET columns == RowColumns(lines[2])
           IN  IF Len(columns) >= 7
               THEN [ isNull     |-> FALSE,
                      asn        |-> columns[1],
                      ipReported |-> columns[2],
                      prefix     |-> columns[3],
                      cc         |-> columns[4],
                      registry   |-> columns[5],
                      allocated  |-> columns[6],
                      asName     |-> columns[7] ]
               ELSE NullInfo
      ELSE NullInfo

\* ----------------------------------------------------------------- inputs

\* The arguments the model enumerates, each a text: the flag "--asn", a host
\* "ex.com", the port "80", the port "70000" (above 65535), the empty
\* argument, and the word "undefined" (an argument like any other).
AsnFlag == << "-", "-", "a", "s", "n" >>

HostName == << "e", "x", ".", "c", "o", "m" >>

Port80 == << "8", "0" >>

Port70000 == << "7", "0", "0", "0", "0" >>

UndefinedWord == << "u", "n", "d", "e", "f", "i", "n", "e", "d" >>

Tokens == { AsnFlag, HostName, Port80, Port70000, << >>, UndefinedWord }

ArgLists == UNION { [ 1..n -> Tokens ] : n \in 0..MaxArgs }

\* A destructured array element that is not there: the value undefined, which
\* no string equals.
Undefined == [ undefined |-> TRUE ]

\* A variable holding the string s.
Str(s) == [ str |-> s ]

\* Mutant of Falsy: only the empty string counts as missing.
Falsy_OnlyEmpty(x) == x = Str(<< >>)

\* !x for a string or undefined
Falsy(x) == x = Undefined \/ x = Str(<< >>)

\* ------------------------------------------- socket.connect(port, ip)

\* Ports are at most 0xFFFF; numbers are followed up to one more than that.
PortLimit == 65536

DigitChars ==
  << "0", "1", "2", "3", "4", "5", "6", "7", "8", "9", "a", "b", "c", "d", "e",
     "f" >>

UpperHexChars == << "A", "B", "C", "D", "E", "F" >>

\* The value of c as a digit, 16 when c is no digit of any radix up to 16.
DigitValue(c) ==
  IF \E i \in 1..16 : DigitChars[i] = c
  THEN (CHOOSE i \in 1..16 : DigitChars[i] = c) - 1
  ELSE IF \E i \in 1..6 : UpperHexChars[i] = c
  THEN (CHOOSE i \in 1..6 : UpperHexChars[i] = c) + 9
  ELSE 16

\* Every character of s is a digit of the radix (s may be empty).
DigitsOf(s, radix) == \A i \in 1..Len(s) : DigitValue(s[i]) < radix

\* The first position of s holding a character of cs, Len(s) + 1 when none does.
FirstIndex(s, cs) ==
  LET hits == { i \in 1..Len(s) : s[i] \in cs }
  IN  IF hits = {}
      THEN Len(s) + 1
      ELSE CHOOSE i \in hits : \A j \in hits : i <= j

NonZeroDigits ==
  { DigitChars[i] : i \in 2..16 } \cup { UpperHexChars[i] : i \in 1..6 }

\* How many significant digits the largest port (0xFFFF) has in a radix.
PortDigits(radix) ==
  CASE radix = 16 -> 4
    [] radix = 10 -> 5
    [] radix = 8 -> 6
    [] radix = 2 -> 16

\* The number the first n digits of ds write.
RECURSIVE DigitsValueTo(_, _, _)
DigitsValueTo(ds, n, radix) ==
  IF n = 0
  THEN 0
  ELSE DigitsValueTo(ds, n - 1, radix) * radix + DigitValue(ds[n])

\* Below, CHOOSE r \in { F(v) : v \in { x } } : TRUE is F(x), with x worked out
\* once.

\* The digits without their leading zeros.
Significant(ds) == SubSeq(ds, FirstIndex(ds, NonZeroDigits), Len(ds))

\* The number significant digits write; PortLimit stands for every number of
\* more digits than a port has.
SignificantValue(sig, radix) ==
  IF Len(sig) > PortDigits(radix)
  THEN PortLimit
  ELSE DigitsValueTo(sig, Len(sig), radix)

\* The number the digits write (up to PortLimit).
DigitsValue(ds, radix) ==
  CHOOSE r \in { SignificantValue(sig, radix) :
                   sig \in { Significant(d) : d \in { ds } } } : TRUE

\* A string of V8 holds fewer than 2^30 characters (String::kMaxLength), so
\* an exponent from 2 * 10^9 on moves the point beyond every digit a literal
\* can have, as 2 * 10^9 itself does.
ExponentLimit == 2000000000

\* The number the digits of an exponent write (up to ExponentLimit).
ExponentValue(ds) ==
  CHOOSE r \in { IF Len(sig) > 10 \/ (Len(sig) = 10 /\ sig[1] # "1")
                 THEN ExponentLimit
                 ELSE DigitsValueTo(sig, Len(sig), 10) :
                   sig \in { Significant(d) : d \in { ds } } } : TRUE

\* What connect needs to know of a number: whether it is NaN, its sign,
\* whether it is an integer, and then its magnitude (up to PortLimit).
NaN == [ nan |-> TRUE, neg |-> FALSE, whole |-> FALSE, mag |-> 0 ]

Num(neg, whole, mag) == [ nan |-> FALSE, neg |-> neg, whole |-> whole, mag |-> mag ]

\* 0x, 0o and 0b literals.
Radix(c) ==
  IF c \in {"x", "X"} THEN 16
  ELSE IF c \in {"o", "O"} THEN 8
  ELSE IF c \in {"b", "B"} THEN 2
  ELSE 0

\* The parts of an unsigned decimal literal: the digits before and after the
\* point, whether an exponent is written, its sign and its digits.
DecimalParts(body) ==
  LET cut  == FirstIndex(body, {"e", "E"})
      dot  == IF FirstIndex(body, {"."}) < cut THEN FirstIndex(body, {"."}) ELSE cut
      expo == SubSeq(body, cut + 1, Len(body))
      expSigned == expo # << >> /\ expo[1] \in {"+", "-"}
  IN  [ ip        |-> SubSeq(body, 1, dot - 1),
        fp        |-> SubSeq(body, dot + 1, cut - 1),
        hasExp    |-> cut <= Len(body),
        expNeg    |-> expSigned /\ expo[1] = "-",
        expDigits |-> IF expSigned THEN Tail(expo) ELSE expo ]

\* ---- Number gives the double nearest to what a literal writes, the even one
\* of two equally near.  A double below 2^52 is an integer k exactly when the
\* literal is within half a step of k; all doubles from 2^52 on are integers.

Zeros(n) == [ i \in 1..n |-> "0" ]

\* The digits without their trailing zeros.
WithoutTrailingZeros(ds) ==
  SubSeq(ds, 1,
         Len(ds) + 1 - FirstIndex([ i \in 1..Len(ds) |-> ds[Len(ds) + 1 - i] ],
                                  NonZeroDigits))

DigitAt(ds, i) == IF i <= Len(ds) THEN DigitValue(ds[i]) ELSE 0

\* 0.a <= 0.b, for digits a and b written after the point
FractionLE(a, b) ==
  \A i \in 1..Len(a) :
    DigitAt(a, i) > DigitAt(b, i) =>
      \E j \in 1..(i - 1) : DigitAt(a, j) < DigitAt(b, j)

\* a <= b, for integers written without leading zeros
DecimalLE(a, b) ==
  Len(a) < Len(b) \/ (Len(a) = Len(b) /\ FractionLE(a, b))

\* 1 - 0.f, for fraction digits f that end in a non-zero digit
Complement(f) ==
  [ i \in 1..Len(f) |->
      DigitChars[(IF i = Len(f) THEN 10 ELSE 9) - DigitValue(f[i]) + 1] ]

\* The integer after the one ds writes.
Increment(ds) ==
  IF \A i \in 1..Len(ds) : ds[i] = "9"
  THEN << "1" >> \o Zeros(Len(ds))
  ELSE CHOOSE r \in
         { SubSeq(ds, 1, k - 1) \o << DigitChars[DigitValue(ds[k]) + 2] >>
             \o Zeros(Len(ds) - k) :
           k \in { CHOOSE k \in 1..Len(ds) :
                     ds[k] # "9" /\ \A j \in (k + 1)..Len(ds) : ds[j] = "9" } } :
         TRUE

\* The digits of m times the number the first n digits of ds write, plus carry.
RECURSIVE TimesTo(_, _, _, _)
TimesTo(ds, n, m, carry) ==
  IF n = 0
  THEN IF carry = 0 THEN << >> ELSE << DigitChars[carry + 1] >>
  ELSE Append(TimesTo(ds, n - 1, m, (DigitValue(ds[n]) * m + carry) \div 10),
              DigitChars[((DigitValue(ds[n]) * m + carry) % 10) + 1])

\* The digits of base^n, base below ten.
RECURSIVE PowerDigits(_, _)
PowerDigits(base, n) ==
  IF n = 0
  THEN << "1" >>
  ELSE CHOOSE r \in { TimesTo(ds, Len(ds), base, 0) :
                        ds \in { PowerDigits(base, n - 1) } } : TRUE

\* 2^e in digits, for the binades below 2^53.
PowersOfTwo == [ e \in 0..52 |-> PowerDigits(2, e) ]

\* The fraction digits of 2^-n = 5^n / 10^n.
NegativePowersOfTwo ==
  [ n \in 1..54 |->
      CHOOSE r \in { Zeros(n - Len(f)) \o f : f \in { PowerDigits(5, n) } } : TRUE ]

\* The 309 digits of 2^1024 - 2^970, half way from the largest double to
\* 2^1024: from here on a number rounds to Infinity.
OverflowDigits ==
  << "1", "7", "9", "7", "6", "9", "3", "1", "3", "4", "8", "6", "2", "3",
     "1", "5", "8", "0", "7", "9", "3", "7", "2", "8", "9", "7", "1", "4",
     "0", "5", "3", "0", "3", "4", "1", "5", "0", "7", "9", "9", "3", "4",
     "1", "3", "2", "7", "1", "0", "0", "3", "7", "8", "2", "6", "9", "3",
     "6", "1", "7", "3", "7", "7", "8", "9", "8", "0", "4", "4", "4", "9",
     "6", "8", "2", "9", "2", "7", "6", "4", "7", "5", "0", "9", "4", "6",
     "6", "4", "9", "0", "1", "7", "9", "7", "7", "5", "8", "7", "2", "0",
     "7", "0", "9", "6", "3", "3", "0", "2", "8", "6", "4", "1", "6", "6",
     "9", "2", "8", "8", "7", "9", "1", "0", "9", "4", "6", "5", "5", "5",
     "5", "4", "7", "8", "5", "1", "9", "4", "0", "4", "0", "2", "6", "3",
     "0", "6", "5", "7", "4", "8", "8", "6", "7", "1", "5", "0", "5", "8",
     "2", "0", "6", "8", "1", "9", "0", "8", "9", "0", "2", "0", "0", "0",
     "7", "0", "8", "3", "8", "3", "6", "7", "6", "2", "7", "3", "8", "5",
     "4", "8", "4", "5", "8", "1", "7", "7", "1", "1", "5", "3", "1", "7",
     "6", "4", "4", "7", "5", "7", "3", "0", "2", "7", "0", "0", "6", "9",
     "8", "5", "5", "5", "7", "1", "3", "6", "6", "9", "5", "9", "6", "2",
     "2", "8", "4", "2", "9", "1", "4", "8", "1", "9", "8", "6", "0", "8",
     "3", "4", "9", "3", "6", "4", "7", "5", "2", "9", "2", "7", "1", "9",
     "0", "7", "4", "1", "6", "8", "4", "4", "4", "3", "6", "5", "5", "1",
     "0", "7", "0", "4", "3", "4", "2", "7", "1", "1", "5", "5", "9", "6",
     "9", "9", "5", "0", "8", "0", "9", "3", "0", "4", "2", "8", "8", "0",
     "1", "7", "7", "9", "0", "4", "1", "7", "4", "4", "9", "7", "7", "9", "2" >>

\* The 752 digits of 5^1075; 2^-1075 = 5^1075 / 10^1075 is half the smallest
\* double, and down to it a number rounds to zero.
FiveTo1075 ==
  << "2", "4", "7", "0", "3", "2", "8", "2", "2", "9", "2", "0", "6", "2",
     "3", "2", "7", "2", "0", "8", "8", "2", "8", "4", "3", "9", "6", "4",
     "3", "4", "1", "1", "0", "6", "8", "6", "1", "8", "2", "5", "2", "9",
     "9", "0", "1", "3", "0", "7", "1", "6", "2", "3", "8", "2", "2", "1",
     "2", "7", "9", "2", "8", "4", "1", "2", "5", "0", "3", "3", "7", "7",
     "5", "3", "6", "3", "5", "1", "0", "4", "3", "7", "5", "9", "3", "2",
     "6", "4", "9", "9", "1", "8", "1", "8", "0", "8", "1", "7", "9", "9",
     "6", "1", "8", "9", "8", "9", "8", "2", "8", "2", "3", "4", "7", "7",
     "2", "2", "8", "5", "8", "8", "6", "5", "4", "6", "3", "3", "2", "8",
     "3", "5", "5", "1", "7", "7", "9", "6", "9", "8", "9", "8", "1", "9",
     "9", "3", "8", "7", "3", "9", "8", "0", "0", "5", "3", "9", "0", "9",
     "3", "9", "0", "6", "3", "1", "5", "0", "3", "5", "6", "5", "9", "5",
     "1", "5", "5", "7", "0", "2", "2", "6", "3", "9", "2", "2", "9", "0",
     "8", "5", "8", "3", "9", "2", "4", "4", "9", "1", "0", "5", "1", "8",
     "4", "4", "3", "5", "9", "3", "1", "8", "0", "2", "8", "4", "9", "9",
     "3", "6", "5", "3", "6", "1", "5", "2", "5", "0", "0", "3", "1", "9",
     "3", "7", "0", "4", "5", "7", "6", "7", "8", "2", "4", "9", "2", "1",
     "9", "3", "6", "5", "6", "2", "3", "6", "6", "9", "8", "6", "3", "6",
     "5", "8", "4", "8", "0", "7", "5", "7", "0", "0", "1", "5", "8", "5",
     "7", "6", "9", "2", "6", "9", "9", "0", "3", "7", "0", "6", "3", "1",
     "1", "9", "2", "8", "2", "7", "9", "5", "5", "8", "5", "5", "1", "3",
     "3", "2", "9", "2", "7", "8", "3", "4", "3", "3", "8", "4", "0", "9",
     "3", "5", "1", "9", "7", "8", "0", "1", "5", "5", "3", "1", "2", "4",
     "6", "5", "9", "7", "2", "6", "3", "5", "7", "9", "5", "7", "4", "6",
     "2", "2", "7", "6", "6", "4", "6", "5", "2", "7", "2", "8", "2", "7",
     "2", "2", "0", "0", "5", "6", "3", "7", "4", "0", "0", "6", "4", "8",
     "5", "4", "9", "9", "9", "7", "7", "0", "9", "6", "5", "9", "9", "4",
     "7", "0", "4", "5", "4", "0", "2", "0", "8", "2", "8", "1", "6", "6",
     "2", "2", "6", "2", "3", "7", "8", "5", "7", "3", "9", "3", "4", "5",
     "0", "7", "3", "6", "3", "3", "9", "0", "0", "7", "9", "6", "7", "7",
     "6", "1", "9", "3", "0", "5", "7", "7", "5", "0", "6", "7", "4", "0",
     "1", "7", "6", "3", "2", "4", "6", "7", "3", "6", "0", "0", "9", "6",
     "8", "9", "5", "1", "3", "4", "0", "5", "3", "5", "5", "3", "7", "4",
     "5", "8", "5", "1", "6", "6", "6", "1", "1", "3", "4", "2", "2", "3",
     "7", "6", "6", "6", "7", "8", "6", "0", "4", "1", "6", "2", "1", "5",
     "9", "6", "8", "0", "4", "6", "1", "9", "1", "4", "4", "6", "7", "2",
     "9", "1", "8", "4", "0", "3", "0", "0", "5", "3", "0", "0", "5", "7",
     "5", "3", "0", "8", "4", "9", "0", "4", "8", "7", "6", "5", "3", "9",
     "1", "7", "1", "1", "3", "8", "6", "5", "9", "1", "6", "4", "6", "2",
     "3", "9", "5", "2", "4", "9", "1", "2", "6", "2", "3", "6", "5", "3",
     "8", "8", "1", "8", "7", "9", "6", "3", "6", "2", "3", "9", "3", "7",
     "3", "2", "8", "0", "4", "2", "3", "8", "9", "1", "0", "1", "8", "6",
     "7", "2", "3", "4", "8", "4", "9", "7", "6", "6", "8", "2", "3", "5",
     "0", "8", "9", "8", "6", "3", "3", "8", "8", "5", "8", "7", "9", "2",
     "5", "6", "2", "8", "3", "0", "2", "7", "5", "5", "9", "9", "5", "6",
     "5", "7", "5", "2", "4", "4", "5", "5", "5", "0", "7", "2", "5", "5",
     "1", "8", "9", "3", "1", "3", "6", "9", "0", "8", "3", "6", "2", "5",
     "4", "7", "7", "9", "1", "8", "6", "9", "4", "8", "6", "6", "7", "9",
     "9", "4", "9", "6", "8", "3", "2", "4", "0", "4", "9", "7", "0", "5",
     "8", "2", "1", "0", "2", "8", "5", "1", "3", "1", "8", "5", "4", "5",
     "1", "3", "9", "6", "2", "1", "3", "8", "3", "7", "7", "2", "2", "8",
     "2", "6", "1", "4", "5", "4", "3", "7", "6", "9", "3", "4", "1", "2",
     "5", "3", "2", "0", "9", "8", "5", "9", "1", "3", "2", "7", "6", "6",
     "7", "2", "3", "6", "3", "2", "8", "1", "2", "5" >>

\* The fraction digits of 2^-1075.
MinHalf == Zeros(323) \o FiveTo1075

\* The e with 2^e <= int < 2^(e+1), for an integer from 1 to below 2^52.
Binade(int) ==
  CHOOSE e \in 0..51 :
    DecimalLE(PowersOfTwo[e], int) /\ ~DecimalLE(PowersOfTwo[e + 1], int)

\* How far above int a literal still rounds to it: half the step of the
\* doubles from int on (2^-1075 from zero on).
HalfStepAbove(int) ==
  IF int = << >> THEN MinHalf ELSE NegativePowersOfTwo[53 - Binade(int)]

\* How far below int + 1 a literal still rounds to it: half the step of the
\* doubles up to int + 1, which below a power of two is half the step above it.
HalfStepBelowNext(int) ==
  IF int = << >> THEN NegativePowersOfTwo[54]
  ELSE NegativePowersOfTwo[53 - Binade(int)]

\* The double nearest to int + 0.frac: int written without leading zeros,
\* below the range where doubles overflow; frac without trailing zeros.
Nearest(neg, int, frac) ==
  IF frac = << >> \/ DecimalLE(PowersOfTwo[52], int)
  THEN Num(neg, TRUE, DigitsValue(int, 10))
  ELSE IF FractionLE(frac, HalfStepAbove(int))
  THEN Num(neg, TRUE, DigitsValue(int, 10))
  ELSE IF \E c \in { Complement(frac) } : FractionLE(c, HalfStepBelowNext(int))
  THEN Num(neg, TRUE, DigitsValue(Increment(int), 10))
  ELSE Num(neg, FALSE, DigitsValue(int, 10))

\* The double nearest to 0.sig * 10^p, sig without leading zeros.
RoundedNumber(neg, sig, p) ==
  IF sig = << >> \/ p <= -324
  THEN Num(neg, TRUE, 0)
  ELSE IF p > 309 \/ (p = 309 /\ FractionLE(OverflowDigits, sig))
  THEN Num(neg, FALSE, PortLimit)
  ELSE CHOOSE n \in
         { Nearest(neg, int, frac) :
             int \in { IF p <= 0 THEN << >>
                       ELSE IF p >= Len(sig) THEN sig \o Zeros(p - Len(sig))
                       ELSE SubSeq(sig, 1, p) },
             frac \in { WithoutTrailingZeros(f) :
                          f \in { IF p <= 0 THEN Zeros(0 - p) \o sig
                                  ELSE IF p >= Len(sig) THEN << >>
                                  ELSE SubSeq(sig, p + 1, Len(sig)) } } } : TRUE

\* The number whose digits are ds with the point after the first `point` of
\* them (before them all when point <= 0, zeros appended when point > Len(ds)).
PointedNumber(neg, ds, point) ==
  CHOOSE n \in { RoundedNumber(neg, sig, IF point <= -324 THEN point
                                         ELSE point - (Len(ds) - Len(sig))) :
                   sig \in { Significant(ds) } } : TRUE

\* The bits of a digit of radix 2^width.
DigitBits(c, width) ==
  [ i \in 1..width |->
      IF (DigitValue(c) \div (2 ^ (width - i))) % 2 = 1 THEN "1" ELSE "0" ]

\* The bits of the first n digits of ds.
RECURSIVE BitsTo(_, _, _)
BitsTo(ds, n, width) ==
  IF n = 0 THEN << >> ELSE BitsTo(ds, n - 1, width) \o DigitBits(ds[n], width)

\* An 0x, 0o or 0b literal from 2^1024 - 2^970 on rounds to Infinity: more
\* than 1024 bits, or 1024 bits of which the first 54 are ones.
RadixOverflows(ds, radix) ==
  \E bits \in { Significant(b) :
                  b \in { BitsTo(ds, Len(ds), CASE radix = 16 -> 4
                                                [] radix = 8 -> 3
                                                [] radix = 2 -> 1) } } :
    Len(bits) > 1024 \/ (Len(bits) = 1024 /\ \A i \in 1..54 : bits[i] = "1")

\* The number the parts of a decimal literal write, NaN when they are not
\* well formed.  The exponent moves the point from the end of the integer
\* part, by at most ExponentLimit.
DecimalOf(neg, ps) ==
  IF /\ DigitsOf(ps.ip, 10)
     /\ DigitsOf(ps.fp, 10)
     /\ Len(ps.ip) + Len(ps.fp) > 0
     /\ ps.hasExp => (ps.expDigits # << >> /\ DigitsOf(ps.expDigits, 10))
  THEN CHOOSE n \in
         { PointedNumber(neg, ps.ip \o ps.fp,
                         IF ps.expNeg THEN Len(ps.ip) - e
                         ELSE IF e >= ExponentLimit - Len(ps.ip) THEN ExponentLimit
                         ELSE Len(ps.ip) + e) :
             e \in { ExponentValue(ps.expDigits) } } : TRUE
  ELSE NaN

\* An unsigned decimal literal: digits, an optional fraction, an optional
\* exponent, rounded to a double.
DecimalNumber(neg, body) ==
  CHOOSE n \in { DecimalOf(neg, ps) : ps \in { DecimalParts(body) } } : TRUE

\* Number(s) for a string s without white space around it
TrimmedToNumber(t) ==
  LET signed == t # << >> /\ t[1] \in {"+", "-"}
      body   == IF signed THEN Tail(t) ELSE t
      neg    == signed /\ t[1] = "-"
  IN  IF t = << >>
      THEN Num(FALSE, TRUE, 0)
      ELSE IF Len(t) >= 2 /\ t[1] = "0" /\ Radix(t[2]) # 0
      THEN IF Len(t) >= 3 /\ DigitsOf(SubSeq(t, 3, Len(t)), Radix(t[2]))
           THEN IF RadixOverflows(SubSeq(t, 3, Len(t)), Radix(t[2]))
                THEN Num(FALSE, FALSE, PortLimit)
                ELSE Num(FALSE, TRUE,
                         DigitsValue(SubSeq(t, 3, Len(t)), Radix(t[2])))
           ELSE NaN
      ELSE IF body = << "I", "n", "f", "i", "n", "i", "t", "y" >>
      THEN Num(neg, FALSE, PortLimit)
      ELSE DecimalNumber(neg, body)

\* Number(s) for a string s
StringToNumber(s) ==
  CHOOSE n \in { TrimmedToNumber(t) : t \in { Trim(s) } } : TRUE

\* net's isPipeName(port): a string whose number is not >= 0 names a path.
IsPipeName(p) ==
  /\ p # Undefined
  /\ \E n \in { StringToNumber(p.str) } :
       n.nan \/ (n.neg /\ ~(n.whole /\ n.mag = 0))

\* net's validatePort(port) accepts: a non-blank string whose number is an
\* integer from 0 to 0xFFFF (+port === (+port >>> 0), which no negative number
\* but -0 passes, and port <= 0xFFFF).
IsLegalPort(p) ==
  /\ p # Undefined
  /\ Trim(p.str) # << >>
  /\ \E n \in { StringToNumber(p.str) } :
       ~n.nan /\ n.whole /\ (n.neg => n.mag = 0) /\ n.mag < PortLimit

\* socket.connect(port, ip) throws ERR_SOCKET_BAD_PORT before any attempt is
\* made: the port is a string, no path, and no legal port.
ConnectThrows(p) == p # Undefined /\ ~IsPipeName(p) /\ ~IsLegalPort(p)

\* The 'data' chunks the lookup service may send: "AS | IP\n", a row of seven
\* fields "1 | 2|3|4|5|6|7 x\n", and a short row "1|2|3" without a newline.
HeaderChunk == << "A", "S", " ", "|", " ", "I", "P", "\n" >>

GoodRowChunk ==
  << "1", " ", "|", " ", "2", "|", "3", "|", "4", "|", "5", "|", "6", "|",
     "7", " ", "x", "\n" >>

ShortRowChunk == << "1", "|", "2", "|", "3" >>

Chunks == { HeaderChunk, GoodRowChunk, ShortRowChunk }

\* ------------------------------------------------------------------ state

VARIABLES
  variant,            \* which program runs: "cli" (cli.js) or "part000"
  argv,               \* process.argv.slice(2)
  pc,                 \* where run() stands
  asnFlag,            \* run: let asnFlag
  host,               \* run: const [host, port]
  port,
  dns,                \* dns.lookup(host): "idle", "pending", "ok", "failed"
  sock,               \* the probe socket: "none", "connecting", "ended", "destroyed"
  inFlight,           \* socket.connect did not throw: a connection attempt was made
  probePromise,       \* checkConnection's promise: "none", "pending", "fulfilled", "rejected"
  probeReason,        \* what it was rejected with: "none", "timeout", "error", "badport"
  probeLog,           \* history: the probe socket's events, in the order they fired
  connectionSuccess,  \* run: let connectionSuccess
  connectionError,    \* run: let connectionError
  client,             \* the lookup socket: "none", "connecting", "open", "ended", "closed"
  queryWrites,        \* how many times client.write sent the query line
  rawData,            \* getAsnInfoFromCymru: let rawData
  lookupPromise,      \* its promise: "none", "pending", "fulfilled", "rejected"
  lookupValue,        \* the value it was resolved with (a record or NullInfo)
  lookupLog,          \* history: the lookup socket's events, in the order they fired
  out,                \* the lines written to stdout and stderr, in order
  calls,              \* history: the external operations started, in order
  exit                \* << >> while the process runs, << code >> after process.exit(code)

vars ==
  << variant, argv, pc, asnFlag, host, port, dns, sock, inFlight, probePromise,
     probeReason, probeLog, connectionSuccess, connectionError, client, queryWrites, rawData,
     lookupPromise, lookupValue, lookupLog, out, calls, exit >>

probeVars == << sock, inFlight, probePromise, probeReason, probeLog >>

lookupVars == << client, queryWrites, rawData, lookupPromise, lookupValue, lookupLog >>

runVars == << pc, asnFlag, host, port, connectionSuccess, connectionError, out, exit >>

\* A promise that has not been resolved holds no value.
Unset == [ unset |-> TRUE ]

\* One console.log (stdout) or console.error (stderr) line; value is the field
\* the line interpolates, << >> when the model does not follow it.
Line(stream, tag, value) == [ stream |-> stream, tag |-> tag, value |-> value ]

\* process.exit has not been called: handlers and continuations still run.
Alive == exit = << >>

InitRest ==
  /\ asnFlag = FALSE
  /\ host = Undefined
  /\ port = Undefined
  /\ dns = "idle"
  /\ sock = "none"
  /\ inFlight = FALSE
  /\ probePromise = "none"
  /\ probeReason = "none"
  /\ probeLog = << >>
  /\ connectionSuccess = FALSE
  /\ connectionError = "null"
  /\ client = "none"
  /\ queryWrites = 0
  /\ lookupPromise = "none"
  /\ lookupValue = Unset
  /\ lookupLog = << >>
  /\ out = << >>
  /\ calls = << >>
  /\ exit = << >>

Init ==
  /\ variant \in {"cli", "part000"}
  /\ argv \in ArgLists
  /\ pc = "start"
  /\ rawData = << >>
  /\ InitRest

\* ------------------------------------------------- checkConnection (probe)

\* resolve() and reject() of checkConnection's promise: the first call settles
\* it, every later call is ignored.
SettleProbe(state, reason) ==
  IF probePromise = "pending"
  THEN /\ probePromise' = state
       /\ probeReason' = reason
  ELSE UNCHANGED << probePromise, probeReason >>

\* await checkConnection(...) resumes: the promise has been settled.
ProbeSettled == probePromise \in {"fulfilled", "rejected"}

\* The call: a new promise, a new socket, setTimeout, the three listeners,
\* socket.connect(port, ip).  connect sets socket.connecting and then either
\* starts the attempt or throws on the port; a throw inside the promise's
\* executor rejects the promise at once, and leaves the socket as it is, its
\* timer armed.
checkConnection ==
  /\ sock' = "connecting"
  /\ probeLog' = << >>
  /\ calls' = Append(calls, "probe")
  /\ IF ConnectThrows(port)
     THEN /\ inFlight' = FALSE
          /\ probePromise' = "rejected"
          /\ probeReason' = "badport"
     ELSE /\ inFlight' = TRUE
          /\ probePromise' = "pending"
          /\ probeReason' = "none"

\* socket.on('connect'): socket.end(); resolve()
OnProbeConnect ==
  /\ Alive
  /\ sock = "connecting"
  /\ inFlight
  /\ sock' = "ended"
  /\ SettleProbe("fulfilled", "none")
  /\ probeLog' = Append(probeLog, "connect")
  /\ UNCHANGED << variant, argv, calls, dns, runVars, lookupVars, inFlight >>

\* Mutant of OnProbeTimeout: the handler destroys the socket and forgets reject.
OnProbeTimeout_NoReject ==
  /\ Alive
  /\ sock \in {"connecting", "ended"}
  /\ sock' = "destroyed"
  /\ probeLog' = Append(probeLog, "timeout")
  /\ UNCHANGED << variant, argv, calls, dns, runVars, lookupVars, inFlight,
                  probePromise, probeReason >>

\* socket.on('timeout'): socket.destroy(); reject(new Error('Timed out ...'))
\* The timer is armed by setTimeout, whether or not an attempt was made.
OnProbeTimeout ==
  /\ Alive
  /\ sock \in {"connecting", "ended"}
  /\ sock' = "destroyed"
  /\ SettleProbe("rejected", "timeout")
  /\ probeLog' = Append(probeLog, "timeout")
  /\ UNCHANGED << variant, argv, calls, dns, runVars, lookupVars, inFlight >>

\* socket.on('error'): socket.destroy(); reject(err)
OnProbeError ==
  /\ Alive
  /\ sock \in {"connecting", "ended"}
  /\ inFlight
  /\ sock' = "destroyed"
  /\ SettleProbe("rejected", "error")
  /\ probeLog' = Append(probeLog, "error")
  /\ UNCHANGED << variant, argv, calls, dns, runVars, lookupVars, inFlight >>

\* ---------------------------------------- getAsnInfoFromCymru (ASN lookup)

\* Mutant of SettleLookup: the last resolve()/reject() call wins.
SettleLookup_LastWins(state, value) ==
  /\ lookupPromise' = state
  /\ lookupValue' = value

\* resolve(value) and reject(err) of the lookup's promise: first call wins.
SettleLookup(state, value) ==
  IF lookupPromise = "pending"
  THEN /\ lookupPromise' = state
       /\ lookupValue' = value
  ELSE UNCHANGED << lookupPromise, lookupValue >>

\* await getAsnInfoFromCymru(...) resumes: the promise has been settled.
LookupSettled == lookupPromise \in {"fulfilled", "rejected"}

\* Mutant of EndOutcome: a response without a usable row rejects.
EndOutcome_RejectOnEmpty(raw) ==
  IF ParseAsn(raw) = NullInfo
  THEN [ state |-> "rejected", value |-> Unset ]
  ELSE [ state |-> "fulfilled", value |-> ParseAsn(raw) ]

\* What the 'end' handler settles the promise with: always a resolve, of the
\* parsed record or of null.
EndOutcome(raw) == [ state |-> "fulfilled", value |-> ParseAsn(raw) ]

\* The call: a new pending promise, rawData = '', net.connect(43, ...).
getAsnInfoFromCymru ==
  /\ client' = "connecting"
  /\ rawData' = << >>
  /\ lookupPromise' = "pending"
  /\ lookupValue' = Unset
  /\ lookupLog' = << >>
  /\ calls' = Append(calls, "lookup")
  /\ UNCHANGED queryWrites

\* How many 'data' events the session has delivered.
DataEvents == Len(SelectSeq(lookupLog, LAMBDA e : e = "data"))

\* net.connect's connect listener: client.write(`-v ${ip}\n`)
OnLookupConnect ==
  /\ Alive
  /\ client = "connecting"
  /\ client' = "open"
  /\ queryWrites' = queryWrites + 1
  /\ lookupLog' = Append(lookupLog, "connect")
  /\ UNCHANGED << variant, argv, calls, dns, runVars, probeVars, rawData, lookupPromise,
                  lookupValue >>

\* Mutant of OnLookupData: the handler resolves as soon as the text received
\* so far holds a usable row.
OnLookupData_ResolvesEarly ==
  /\ Alive
  /\ client = "open"
  /\ DataEvents < MaxChunks
  /\ \E chunk \in Chunks :
       /\ rawData' = rawData \o chunk
       /\ IF ParseAsn(rawData \o chunk) # NullInfo
          THEN SettleLookup("fulfilled", ParseAsn(rawData \o chunk))
          ELSE UNCHANGED << lookupPromise, lookupValue >>
  /\ lookupLog' = Append(lookupLog, "data")
  /\ UNCHANGED << variant, argv, calls, dns, runVars, probeVars, client, queryWrites >>

\* client.on('data'): rawData += chunk.toString()
OnLookupData ==
  /\ Alive
  /\ client = "open"
  /\ DataEvents < MaxChunks
  /\ \E chunk \in Chunks : rawData' = rawData \o chunk
  /\ lookupLog' = Append(lookupLog, "data")
  /\ UNCHANGED << variant, argv, calls, dns, runVars, probeVars, client, queryWrites,
                  lookupPromise, lookupValue >>

\* The session was established and its 'end' event has not fired.
EndOutstanding ==
  /\ \E i \in 1..Len(lookupLog) : lookupLog[i] = "connect"
  /\ \A i \in 1..Len(lookupLog) : lookupLog[i] # "end"

\* client.on('end'): parse rawData; resolve(record) or resolve(null).  The
\* program neither destroys the client nor detaches the listener on 'error',
\* so an 'end' that follows an 'error' still runs this handler.
OnLookupEnd ==
  /\ Alive
  /\ client = "open" \/ (client = "closed" /\ EndOutstanding)
  /\ client' = IF client = "open" THEN "ended" ELSE "closed"
  /\ SettleLookup(EndOutcome(rawData).state, EndOutcome(rawData).value)
  /\ lookupLog' = Append(lookupLog, "end")
  /\ UNCHANGED << variant, argv, calls, dns, runVars, probeVars, queryWrites, rawData >>

\* client.on('error'): reject(err).  net.Socket destroys itself with the error.
OnLookupError ==
  /\ Alive
  /\ client \in {"connecting", "open", "ended"}
  /\ client' = "closed"
  /\ SettleLookup("rejected", Unset)
  /\ lookupLog' = Append(lookupLog, "error")
  /\ UNCHANGED << variant, argv, calls, dns, runVars, probeVars, queryWrites, rawData >>

\* ------------------------------------------------------------- dns.lookup

DnsResolves ==
  /\ Alive
  /\ dns = "pending"
  /\ dns' = "ok"
  /\ UNCHANGED << variant, argv, calls, runVars, probeVars, lookupVars >>

DnsFails ==
  /\ Alive
  /\ dns = "pending"
  /\ dns' = "failed"
  /\ UNCHANGED << variant, argv, calls, runVars, probeVars, lookupVars >>

\* ------------------------------------------------------------ run (cli.js)

\* process.exit(code)
ProcessExit(code) ==
  /\ exit' = << code >>
  /\ pc' = "exited"

\* args without the --asn flag, in order
PositionalArgs(args) == SelectSeq(args, LAMBDA a : a # AsnFlag)

\* const [a, b] = xs: xs[i], or undefined past the end
Element(xs, i) == IF i <= Len(xs) THEN Str(xs[i]) ELSE Undefined

\* Mutant of ExitCodeFor: a failed lookup also makes the exit code 1.
ExitCodeFor_AsnAffects(success) ==
  IF success /\ lookupPromise # "rejected" THEN 0 ELSE 1

\* process.exit(connectionSuccess ? 0 : 1)
ExitCodeFor(success) == IF success THEN 0 ELSE 1

\* Argument parsing, the usage check, and the call of dns.lookup.
RunParseArgs ==
  /\ variant = "cli"
  /\ pc = "start"
  /\ LET positionalArgs == PositionalArgs(argv)
         h == Element(positionalArgs, 1)
         p == Element(positionalArgs, 2)
     IN  /\ asnFlag' = (\E i \in 1..Len(argv) : argv[i] = AsnFlag)
         /\ host' = h
         /\ port' = p
         /\ IF Falsy(h) \/ Falsy(p)
            THEN /\ out' = Append(out, Line("stderr", "Usage", << >>))
                 /\ ProcessExit(1)
                 /\ UNCHANGED << dns, calls >>
            ELSE /\ dns' = "pending"
                 /\ calls' = Append(calls, "dns")
                 /\ pc' = "awaitDns"
                 /\ UNCHANGED << out, exit >>
  /\ UNCHANGED << variant, argv, connectionSuccess, connectionError, probeVars,
                  lookupVars >>

\* Mutant of RunAfterDns: the catch prints the error and does not exit.
RunAfterDns_NoExit ==
  /\ variant = "cli"
  /\ pc = "awaitDns"
  /\ dns \in {"ok", "failed"}
  /\ out' = IF dns = "failed"
            THEN Append(out, Line("stderr", "ResolveError", << >>))
            ELSE out
  /\ connectionSuccess' = FALSE
  /\ connectionError' = "null"
  /\ checkConnection
  /\ pc' = "awaitProbe"
  /\ UNCHANGED << variant, argv, asnFlag, host, port, dns, exit, lookupVars >>

\* Mutant of RunAfterDns: the lookup is started together with the probe.
RunAfterDns_StartsLookupToo ==
  /\ variant = "cli"
  /\ pc = "awaitDns"
  /\ dns \in {"ok", "failed"}
  /\ IF dns = "failed"
     THEN /\ out' = Append(out, Line("stderr", "ResolveError", << >>))
          /\ ProcessExit(1)
          /\ UNCHANGED << probeVars, lookupVars, calls, connectionSuccess,
                          connectionError >>
     ELSE /\ connectionSuccess' = FALSE
          /\ connectionError' = "null"
          /\ sock' = "connecting"
          /\ probeLog' = << >>
          /\ IF ConnectThrows(port)
             THEN /\ inFlight' = FALSE
                  /\ probePromise' = "rejected"
                  /\ probeReason' = "badport"
             ELSE /\ inFlight' = TRUE
                  /\ probePromise' = "pending"
                  /\ probeReason' = "none"
          /\ IF asnFlag
             THEN /\ client' = "connecting"
                  /\ lookupPromise' = "pending"
                  /\ calls' = calls \o << "probe", "lookup" >>
             ELSE /\ UNCHANGED << client, lookupPromise >>
                  /\ calls' = Append(calls, "probe")
          /\ UNCHANGED << queryWrites, rawData, lookupValue, lookupLog >>
          /\ pc' = "awaitProbe"
          /\ UNCHANGED << out, exit >>
  /\ UNCHANGED << variant, argv, asnFlag, host, port, dns >>

\* After await dns.lookup: the catch exits, or checkConnection is called.
RunAfterDns ==
  /\ variant = "cli"
  /\ pc = "awaitDns"
  /\ dns \in {"ok", "failed"}
  /\ IF dns = "failed"
     THEN /\ out' = Append(out, Line("stderr", "ResolveError", << >>))
          /\ ProcessExit(1)
          /\ UNCHANGED << probeVars, calls, connectionSuccess, connectionError >>
     ELSE /\ connectionSuccess' = FALSE
          /\ connectionError' = "null"
          /\ checkConnection
          /\ pc' = "awaitProbe"
          /\ UNCHANGED << out, exit >>
  /\ UNCHANGED << variant, argv, asnFlag, host, port, dns, lookupVars >>

\* Mutant of RunAfterProbe: a failed probe is attempted again.
RunAfterProbe_RetryOnFailure ==
  /\ variant = "cli"
  /\ pc = "awaitProbe"
  /\ ProbeSettled
  /\ IF probePromise = "fulfilled"
     THEN /\ connectionSuccess' = TRUE
          /\ out' = Append(out, Line("stdout", "PortOpen", << >>))
          /\ UNCHANGED probeVars
          /\ IF asnFlag
             THEN /\ getAsnInfoFromCymru
                  /\ pc' = "awaitLookup"
                  /\ UNCHANGED exit
             ELSE /\ ProcessExit(ExitCodeFor(TRUE))
                  /\ UNCHANGED << lookupVars, calls >>
     ELSE /\ checkConnection
          /\ UNCHANGED << connectionSuccess, out, pc, exit, lookupVars >>
  /\ UNCHANGED << variant, argv, asnFlag, host, port, dns, connectionError >>

\* Mutant of RunAfterProbe: the lookup is made only when the port is open.
RunAfterProbe_LookupOnlyWhenOpen ==
  /\ variant = "cli"
  /\ pc = "awaitProbe"
  /\ ProbeSettled
  /\ IF probePromise = "fulfilled"
     THEN /\ connectionSuccess' = TRUE
          /\ UNCHANGED connectionError
          /\ out' = Append(out, Line("stdout", "PortOpen", << >>))
     ELSE /\ connectionError' = probeReason
          /\ UNCHANGED connectionSuccess
          /\ out' = Append(out, Line("stdout", "PortNotOpen", << >>))
  /\ IF asnFlag /\ probePromise = "fulfilled"
     THEN /\ getAsnInfoFromCymru
          /\ pc' = "awaitLookup"
          /\ UNCHANGED exit
     ELSE /\ ProcessExit(ExitCodeFor(probePromise = "fulfilled"))
          /\ UNCHANGED << lookupVars, calls >>
  /\ UNCHANGED << variant, argv, asnFlag, host, port, dns, probeVars >>

\* After await checkConnection, in one turn: record the outcome, print the
\* port line, and then, with --asn, call getAsnInfoFromCymru and await it;
\* without, go to the final process.exit.
RunAfterProbe ==
  /\ variant = "cli"
  /\ pc = "awaitProbe"
  /\ ProbeSettled
  /\ IF probePromise = "fulfilled"
     THEN /\ connectionSuccess' = TRUE
          /\ UNCHANGED connectionError
          /\ out' = Append(out, Line("stdout", "PortOpen", << >>))
     ELSE /\ connectionError' = probeReason
          /\ UNCHANGED connectionSuccess
          /\ out' = Append(out, Line("stdout", "PortNotOpen", << >>))
  /\ IF asnFlag
     THEN /\ getAsnInfoFromCymru
          /\ pc' = "awaitLookup"
          /\ UNCHANGED exit
     ELSE /\ ProcessExit(ExitCodeFor(probePromise = "fulfilled"))
          /\ UNCHANGED << lookupVars, calls >>
  /\ UNCHANGED << variant, argv, asnFlag, host, port, dns, probeVars >>

\* The six console.log lines of a record.
AsnLines(info) ==
  << Line("stdout", "ASN", info.asn),
     Line("stdout", "AS Name", info.asName),
     Line("stdout", "BGP Prefix", info.prefix),
     Line("stdout", "CC", info.cc),
     Line("stdout", "Registry", info.registry),
     Line("stdout", "Allocated", info.allocated) >>

\* Mutant of RunAfterLookup: no try/catch around the await; a rejection leaves
\* run() as an unhandled rejection, which ends the process with code 1.
RunAfterLookup_NoCatch ==
  /\ variant = "cli"
  /\ pc = "awaitLookup"
  /\ LookupSettled
  /\ IF lookupPromise = "fulfilled"
     THEN /\ IF lookupValue # NullInfo
             THEN out' = out \o AsnLines(lookupValue)
             ELSE out' = Append(out, Line("stdout", "NoAsnInfo", << >>))
          /\ ProcessExit(ExitCodeFor(connectionSuccess))
     ELSE /\ pc' = "uncaught"
          /\ exit' = << 1 >>
          /\ UNCHANGED out
  /\ UNCHANGED << variant, argv, calls, asnFlag, host, port, dns, connectionSuccess,
                  connectionError, probeVars, lookupVars >>

\* After await getAsnInfoFromCymru: print the record, the no-information line
\* or (catch) the error line; then the final process.exit.
RunAfterLookup ==
  /\ variant = "cli"
  /\ pc = "awaitLookup"
  /\ LookupSettled
  /\ IF lookupPromise = "fulfilled"
     THEN IF lookupValue # NullInfo
          THEN out' = out \o AsnLines(lookupValue)
          ELSE out' = Append(out, Line("stdout", "NoAsnInfo", << >>))
     ELSE out' = Append(out, Line("stderr", "AsnError", << >>))
  /\ ProcessExit(ExitCodeFor(connectionSuccess))
  /\ UNCHANGED << variant, argv, calls, asnFlag, host, port, dns, connectionSuccess,
                  connectionError, probeVars, lookupVars >>

\* ----------------------------------------------- run (unnamed/part_000)

\* const [, , host, port] = process.argv; the usage check; checkConnection is
\* called and awaits dns.lookup.
P0RunParseArgs ==
  /\ variant = "part000"
  /\ pc = "start"
  /\ LET h == Element(argv, 1)
         p == Element(argv, 2)
     IN  /\ host' = h
         /\ port' = p
         /\ IF Falsy(h) \/ Falsy(p)
            THEN /\ out' = Append(out, Line("stderr", "Usage", << >>))
                 /\ ProcessExit(1)
                 /\ UNCHANGED << dns, calls >>
            ELSE /\ dns' = "pending"
                 /\ calls' = Append(calls, "dns")
                 /\ pc' = "awaitDns"
                 /\ UNCHANGED << out, exit >>
  /\ UNCHANGED << variant, argv, asnFlag, connectionSuccess, connectionError,
                  probeVars, lookupVars >>

\* Mutant of P0Catch: the catch prints and exits with code 0.
P0Catch_ExitsZero ==
  /\ out' = out \o << Line("stderr", "PortNotOpen", << >>),
                      Line("stderr", "Reason", << >>) >>
  /\ ProcessExit(0)

\* The two console.error lines and the exit of run's catch.
P0Catch ==
  /\ out' = out \o << Line("stderr", "PortNotOpen", << >>),
                      Line("stderr", "Reason", << >>) >>
  /\ ProcessExit(1)

\* checkConnection after await dns.lookup: a rejection reaches run's catch;
\* otherwise the socket is created and connected.
P0AfterDns ==
  /\ variant = "part000"
  /\ pc = "awaitDns"
  /\ dns \in {"ok", "failed"}
  /\ IF dns = "failed"
     THEN /\ P0Catch
          /\ UNCHANGED << probeVars, calls >>
     ELSE /\ checkConnection
          /\ pc' = "awaitProbe"
          /\ UNCHANGED << out, exit >>
  /\ UNCHANGED << variant, argv, asnFlag, host, port, dns, connectionSuccess,
                  connectionError, lookupVars >>

\* After await checkConnection: print and exit 0, or the catch.
P0AfterProbe ==
  /\ variant = "part000"
  /\ pc = "awaitProbe"
  /\ ProbeSettled
  /\ IF probePromise = "fulfilled"
     THEN /\ out' = Append(out, Line("stdout", "PortOpen", << >>))
          /\ ProcessExit(0)
     ELSE P0Catch
  /\ UNCHANGED << variant, argv, calls, asnFlag, host, port, dns, connectionSuccess,
                  connectionError, probeVars, lookupVars >>

\* ------------------------------------------------------- specifications

RunStep ==
  \/ RunParseArgs
  \/ RunAfterDns
  \/ RunAfterProbe
  \/ RunAfterLookup
  \/ P0RunParseArgs
  \/ P0AfterDns
  \/ P0AfterProbe

Next ==
  \/ RunStep
  \/ DnsResolves
  \/ DnsFails
  \/ OnProbeConnect
  \/ OnProbeTimeout
  \/ OnProbeError
  \/ OnLookupConnect
  \/ OnLookupData
  \/ OnLookupEnd
  \/ OnLookupError

Spec == Init /\ [][Next]_vars

\* The event loop runs every continuation of run() that is ready, dns.lookup
\* settles one way or the other, and the probe socket's timer (setTimeout)
\* fires when nothing else ends the connection attempt.  The lookup's
\* connection attempt ends too: the operating system establishes it or fails
\* it ('error').  Nothing makes the lookup service, once it has accepted the
\* session, send, close or fail.
Fairness ==
  /\ WF_vars(RunStep)
  /\ WF_vars(DnsResolves \/ DnsFails)
  /\ WF_vars(sock = "connecting" /\ OnProbeTimeout)
  /\ WF_vars(client = "connecting" /\ (OnLookupConnect \/ OnLookupError))

FairSpec == Spec /\ Fairness

\* ------------------------------------------ the parser on bounded inputs

\* s1 sep s2 sep ... sn
RECURSIVE JoinWith(_, _)
JoinWith(sep, xs) ==
  IF Len(xs) = 0 THEN << >>
  ELSE IF Len(xs) = 1 THEN xs[1]
  ELSE xs[1] \o sep \o JoinWith(sep, Tail(xs))

\* Candidate data rows: 1..MaxFields fields, each empty or "a", joined by
\* "|" or " | ".
RowFields == { << >>, << "a" >> }

RowSeparators == { << "|" >>, << " ", "|", " " >> }

Rows ==
  { JoinWith(sep, fs) :
      sep \in RowSeparators,
      fs \in UNION { [ 1..n -> RowFields ] : n \in 1..MaxFields } }

\* What precedes the row: nothing, a header line, a header and a blank line,
\* an empty line and a header ending in "\r\n", a header and a line holding a
\* form feed and a no-break space.
Heads ==
  { << >>,
    << "h", "\n" >>,
    << "h", "\n", " ", "\n" >>,
    << "\n", "h", "\r", "\n" >>,
    << "h", "\n", "\f", " ", "\n" >> }

\* What follows the row: nothing, a newline, a further row of seven "z".
Tails ==
  { << >>,
    << "\n" >>,
    << "\n", "z", "|", "z", "|", "z", "|", "z", "|", "z", "|", "z", "|", "z" >> }

ParseInputs == { h \o r \o t : h \in Heads, r \in Rows, t \in Tails }

\* cli.js run with --asn, the port open, the lookup session established and
\* the whole response received: only the service's close is outstanding.  An
\* empty response came without a 'data' event.
InitParse ==
  /\ variant = "cli"
  /\ argv = << AsnFlag, HostName, Port80 >>
  /\ pc = "awaitLookup"
  /\ asnFlag = TRUE
  /\ host = Str(HostName)
  /\ port = Str(Port80)
  /\ dns = "ok"
  /\ sock = "ended"
  /\ inFlight = TRUE
  /\ probePromise = "fulfilled"
  /\ probeReason = "none"
  /\ probeLog = << "connect" >>
  /\ connectionSuccess = TRUE
  /\ connectionError = "null"
  /\ client = "open"
  /\ queryWrites = 1
  /\ rawData \in ParseInputs
  /\ lookupPromise = "pending"
  /\ lookupValue = Unset
  /\ lookupLog = IF rawData = << >> THEN << "connect" >>
                  ELSE << "connect", "data" >>
  /\ out = << Line("stdout", "PortOpen", << >>) >>
  /\ calls = << "dns", "probe", "lookup" >>
  /\ exit = << >>

NextParse ==
  \/ OnLookupEnd
  \/ RunAfterLookup

SpecParse == InitParse /\ [][NextParse]_vars

\* ================================================================ claims

\* The first event the probe socket fired, "none" before any.
FirstProbeEvent == IF probeLog = << >> THEN "none" ELSE probeLog[1]

\* The probe found the port open: connect fired before timeout and error.
ProbeOpen == FirstProbeEvent = "connect"

HasLine(tag) == \E i \in 1..Len(out) : out[i].tag = tag

PortLine(open) == Line("stdout", IF open THEN "PortOpen" ELSE "PortNotOpen", << >>)

\* C1: when resolution succeeded and run() of cli.js has exited, the exit code
\* is 0 exactly when the probe outcome is Open, whatever the ASN lookup did
\* (not requested, record, absence, transport error).
C1_ExitCodeOnlyProbe ==
  (variant = "cli" /\ dns = "ok" /\ pc = "exited")
    => /\ exit \in { << 0 >>, << 1 >> }
       /\ (exit = << 0 >>) <=> ProbeOpen

\* C1 witness: the port is open, the lookup failed in transport, the exit code is 0.
C1_Witness ==
  /\ variant = "cli"
  /\ pc = "exited"
  /\ ProbeOpen
  /\ lookupPromise = "rejected"
  /\ exit = << 0 >>

\* C2: in cli.js, once resolution has failed, run() is waiting to observe it or
\* has exited with code 1 having printed only the resolution-error message, and
\* neither the probe socket nor the lookup session has ever been created.
C2_ResolutionFailureStops ==
  (variant = "cli" /\ dns = "failed")
    => /\ pc \in {"awaitDns", "exited"}
       /\ sock = "none" /\ probePromise = "none" /\ probeLog = << >>
       /\ client = "none" /\ lookupPromise = "none" /\ lookupLog = << >>
       /\ queryWrites = 0
       /\ pc = "awaitDns" => (out = << >> /\ exit = << >>)
       /\ pc = "exited" => /\ exit = << 1 >>
                           /\ out = << Line("stderr", "ResolveError", << >>) >>

\* C2 witness: resolution failed and run() has exited.
C2_Witness ==
  /\ variant = "cli"
  /\ dns = "failed"
  /\ pc = "exited"
  /\ HasLine("ResolveError")

\* The number of arguments the program takes as positional: all but --asn in
\* cli.js, all of them in part_000.
PositionalCount ==
  IF variant = "cli"
  THEN Cardinality({ i \in 1..Len(argv) : argv[i] # AsnFlag })
  ELSE Len(argv)

\* C3: when host or port is missing from the positional arguments, the program
\* (either variant, with or without --asn) prints the usage message, exits with
\* code 1, and starts no resolution, no probe socket and no lookup session.
C3_UsageNoNetwork ==
  (PositionalCount < 2)
    => /\ dns = "idle"
       /\ sock = "none" /\ probePromise = "none"
       /\ client = "none" /\ lookupPromise = "none"
       /\ pc \in {"start", "exited"}
       /\ pc = "exited" => /\ exit = << 1 >>
                           /\ out = << Line("stderr", "Usage", << >>) >>

\* C3 witness: cli.js was given --asn and a host but no port, and has exited.
C3_Witness ==
  /\ variant = "cli"
  /\ argv = << AsnFlag, HostName >>
  /\ pc = "exited"
  /\ HasLine("Usage")

\* The lines run() of cli.js prints for a settled lookup.
ExpectedAsnReport ==
  IF lookupPromise = "rejected"
  THEN << Line("stderr", "AsnError", << >>) >>
  ELSE IF lookupValue.isNull
  THEN << Line("stdout", "NoAsnInfo", << >>) >>
  ELSE << [ stream |-> "stdout", tag |-> "ASN", value |-> lookupValue.asn ],
          [ stream |-> "stdout", tag |-> "AS Name", value |-> lookupValue.asName ],
          [ stream |-> "stdout", tag |-> "BGP Prefix", value |-> lookupValue.prefix ],
          [ stream |-> "stdout", tag |-> "CC", value |-> lookupValue.cc ],
          [ stream |-> "stdout", tag |-> "Registry", value |-> lookupValue.registry ],
          [ stream |-> "stdout", tag |-> "Allocated", value |-> lookupValue.allocated ] >>

\* C4: in cli.js with --asn, after resolution succeeded: once the probe line is
\* printed the lookup is started whatever the probe outcome, and at exit the
\* output is the probe line (true to the probe outcome) followed by the
\* lookup's own report (six fields, the no-information line, or the transport
\* error line), whatever the other operation's outcome was.
C4_IndependentContainment ==
  (variant = "cli" /\ asnFlag /\ dns = "ok")
    => /\ pc = "awaitLookup" =>
            /\ lookupPromise # "none"
            /\ client # "none"
            /\ out = << PortLine(ProbeOpen) >>
       /\ pc = "exited" =>
            /\ lookupPromise \in {"fulfilled", "rejected"}
            /\ out = << PortLine(ProbeOpen) >> \o ExpectedAsnReport

\* C4 witness: the probe failed, the lookup returned a record, and run() has
\* exited having printed the six fields.
C4_Witness ==
  /\ variant = "cli"
  /\ pc = "exited"
  /\ FirstProbeEvent \in {"timeout", "error"}
  /\ lookupPromise = "fulfilled"
  /\ ~lookupValue.isNull
  /\ Len(out) = 7
  /\ HasLine("PortNotOpen")
  /\ HasLine("Allocated")

PortTags == {"PortOpen", "PortNotOpen"}

AsnTags ==
  {"ASN", "AS Name", "BGP Prefix", "CC", "Registry", "Allocated", "NoAsnInfo",
   "AsnError"}

HasLineIn(tags) == \E i \in 1..Len(out) : out[i].tag \in tags

Settled == {"fulfilled", "rejected"}

\* C5 as stated: in cli.js with --asn, no result line (the probe line included)
\* is in the output while the probe or the lookup is unsettled or not started.
\* cli.js prints the probe line before it starts the lookup.
C5_WaitsForBoth ==
  (variant = "cli" /\ asnFlag /\ HasLineIn(PortTags \cup AsnTags))
    => (probePromise \in Settled /\ lookupPromise \in Settled)

\* What the first probe event decides: the promise's state and rejection reason.
DecidedBy(event) ==
  IF event = "connect"
  THEN << "fulfilled", "none" >>
  ELSE << "rejected", event >>

\* C6 as stated: in every step, a settled probe promise keeps its state and
\* reason; a settled promise is the one the first socket event decided
\* (connect: Open, timeout: TimedOut, error: ConnectionError); and what run()
\* has observed
\* (connectionSuccess, connectionError, the port line, part_000's exit code) is
\* that first outcome, whatever events fired later.
C6_ProbeSettlesOnce ==
  [][ /\ probePromise \in Settled =>
           (probePromise' = probePromise /\ probeReason' = probeReason)
      /\ probePromise' \in Settled =>
           /\ probeLog' # << >>
           /\ << probePromise', probeReason' >> = DecidedBy(probeLog'[1])
      /\ (probeLog' # << >> /\ HasLineIn(PortTags)') =>
           /\ HasLine("PortOpen")' <=> (probeLog'[1] = "connect")
           /\ variant = "cli" =>
                /\ connectionSuccess' <=> (probeLog'[1] = "connect")
                /\ ~connectionSuccess' => connectionError' = probeLog'[1]
           /\ (variant = "part000" /\ pc' = "exited") =>
                ((exit' = << 0 >>) <=> (probeLog'[1] = "connect"))
    ]_vars

\* The first of 'end' and 'error' the lookup socket fired, "none" before both.
FirstLookupTerminal ==
  LET ends == SelectSeq(lookupLog, LAMBDA e : e \in {"end", "error"})
  IN  IF ends = << >> THEN "none" ELSE ends[1]

\* C7: the lookup promise is rejected only when an 'error' event came first;
\* when 'end' came first it is fulfilled with a record or with null, whatever
\* rawData holds; before both it is pending.
C7_RejectsOnlyOnError ==
  (lookupPromise # "none")
    => /\ lookupPromise = "rejected" <=> FirstLookupTerminal = "error"
       /\ lookupPromise = "pending" <=> FirstLookupTerminal = "none"
       /\ FirstLookupTerminal = "end" =>
            /\ lookupPromise = "fulfilled"
            /\ "isNull" \in DOMAIN lookupValue

\* C7 witness: the stream ended with nothing received and the promise is
\* fulfilled with null.
C7_Witness ==
  /\ FirstLookupTerminal = "end"
  /\ rawData = << >>
  /\ lookupPromise = "fulfilled"
  /\ lookupValue = NullInfo

\* The response text seen as segments between newlines, by position: a
\* segment is named by the position of the break before it (0, or a "\n").
SegBreaks(raw) == {0} \cup { i \in 1..Len(raw) : raw[i] = "\n" }

SegEnd(raw, a) ==
  LET later == { i \in (a + 1)..Len(raw) : raw[i] = "\n" }
  IN  IF later = {} THEN Len(raw) + 1
      ELSE CHOOSE i \in later : \A j \in later : i <= j

\* Segments holding a character that is not white space.
NonBlankSegs(raw) ==
  { a \in SegBreaks(raw) :
      \E i \in (a + 1)..(SegEnd(raw, a) - 1) : raw[i] \notin WhiteSpace }

\* The n-th smallest member of a set of numbers.
NthSmallest(S, n) == CHOOSE x \in S : Cardinality({ y \in S : y < x }) = n - 1

SecondSeg(raw) == NthSmallest(NonBlankSegs(raw), 2)

PipesIn(raw, a) == { i \in (a + 1)..(SegEnd(raw, a) - 1) : raw[i] = "|" }

\* Absence as the specification words it: fewer than two non-empty lines, or
\* fewer than 7 pipe-delimited fields on the second.
SpecAbsent(raw) ==
  \/ Cardinality(NonBlankSegs(raw)) < 2
  \/ Cardinality(PipesIn(raw, SecondSeg(raw))) + 1 < 7

\* The n-th pipe-delimited field of the second non-empty line, trimmed.
SpecField(raw, n) ==
  LET a    == SecondSeg(raw)
      cuts == {a} \cup PipesIn(raw, a) \cup {SegEnd(raw, a)}
      lo   == NthSmallest(cuts, n)
      hi   == NthSmallest(cuts, n + 1)
      keep == { i \in (lo + 1)..(hi - 1) : raw[i] \notin WhiteSpace }
  IN  IF keep = {} THEN << >>
      ELSE SubSeq(raw, CHOOSE i \in keep : \A j \in keep : i <= j,
                       CHOOSE i \in keep : \A j \in keep : j <= i)

RecordKeys ==
  {"isNull", "asn", "ipReported", "prefix", "cc", "registry", "allocated", "asName"}

\* C8: when the stream has ended, the value delivered is null exactly when
\* fewer than two non-empty trimmed lines remain or the second has fewer than
\* 7 pipe-delimited fields; otherwise it is a record with all seven fields.
C8_AbsentExactlyWhen ==
  (lookupPromise = "fulfilled")
    => /\ (lookupValue = NullInfo) <=> SpecAbsent(rawData)
       /\ ~SpecAbsent(rawData) =>
            (DOMAIN lookupValue = RecordKeys /\ ~lookupValue.isNull)

\* C8 witness: a blank line was discarded, the second remaining line has
\* exactly seven fields, and a record is delivered.
C8_Witness ==
  /\ lookupPromise = "fulfilled"
  /\ ~lookupValue.isNull
  /\ Cardinality(NonBlankSegs(rawData)) < Cardinality(SegBreaks(rawData))
  /\ Cardinality(PipesIn(rawData, SecondSeg(rawData))) = 6

\* C9: a delivered record holds the first seven trimmed pipe-delimited fields
\* of the second non-empty line, in the order asn, reported IP, prefix, country
\* code, registry, allocated date, AS name; nothing else of the text enters it.
C9_FieldsPositional ==
  (lookupPromise = "fulfilled" /\ ~lookupValue.isNull)
    => /\ lookupValue.asn = SpecField(rawData, 1)
       /\ lookupValue.ipReported = SpecField(rawData, 2)
       /\ lookupValue.prefix = SpecField(rawData, 3)
       /\ lookupValue.cc = SpecField(rawData, 4)
       /\ lookupValue.registry = SpecField(rawData, 5)
       /\ lookupValue.allocated = SpecField(rawData, 6)
       /\ lookupValue.asName = SpecField(rawData, 7)

\* C9 witness: the row has an eighth field and a further line follows it; the
\* record's prefix and country code differ.
C9_Witness ==
  /\ lookupPromise = "fulfilled"
  /\ ~lookupValue.isNull
  /\ Cardinality(PipesIn(rawData, SecondSeg(rawData))) >= 7
  /\ Cardinality(NonBlankSegs(rawData)) >= 3
  /\ lookupValue.prefix # lookupValue.cc
  /\ SpecField(rawData, 8) # << >>

\* The order of run()'s positions.
PcRank(p) ==
  CASE p = "start" -> 0
    [] p = "awaitDns" -> 1
    [] p = "awaitProbe" -> 2
    [] p = "awaitLookup" -> 3
    [] p = "exited" -> 4

NoStateRevisited == [][pc' # pc => PcRank(pc') > PcRank(pc)]_vars

\* C10 as stated: every invocation eventually exits, never returning to a
\* position it has left, whatever the environment does.
C10_AlwaysTerminates ==
  /\ <>(pc = "exited")
  /\ NoStateRevisited

\* C10 as amended: every invocation eventually exits, unless --asn was given
\* and the lookup service has accepted the session and then neither closes the
\* stream nor fails, in which case the lookup promise stays pending and run()
\* stays in its await of the lookup for ever; no position is ever revisited.
C10_TerminatesUnlessLookupHangs ==
  /\ \/ <>(pc = "exited")
     \/ <>[](/\ variant = "cli"
             /\ asnFlag
             /\ pc = "awaitLookup"
             /\ client = "open"
             /\ lookupPromise = "pending"
             /\ exit = << >>)
  /\ NoStateRevisited

\* C10 witness: the service has accepted the session and the query, has sent
\* data and has not closed; run() waits.
C10_Witness ==
  /\ pc = "awaitLookup"
  /\ client = "open"
  /\ queryWrites = 1
  /\ rawData # << >>
  /\ lookupPromise = "pending"
  /\ exit = << >>

\* C11 as stated, where run() has seen the probe's outcome and waits for the
\* lookup: once the winning handler has run, no other handler body of the
\* probe socket runs (the record of handler runs no longer grows).
C11_NoLateHandler ==
  [][ (pc = "awaitLookup" /\ probePromise \in Settled /\ probeLog # << >>)
        => probeLog' = probeLog ]_vars

\* C12 as stated: whenever checkConnection's promise is settled, its socket has
\* been ended (connect branch) or destroyed (timeout and error branches): a
\* settled probe never has a socket still attempting the connection or left
\* open.
C12_SocketClosedWhenSettled ==
  /\ probePromise \in Settled => sock \in {"ended", "destroyed"}
  /\ probePromise = "fulfilled" => probeLog[1] = "connect"
  /\ (probePromise = "rejected" /\ Len(probeLog) = 1) => sock = "destroyed"
  /\ (probePromise = "fulfilled" /\ Len(probeLog) = 1) => sock = "ended"

\* C13: under fairness of the probe's timer, a pending probe promise is
\* eventually settled.
C13_ProbeEventuallySettles ==
  (probePromise = "pending") ~> (probePromise \in Settled)

\* C13 witness: nothing answered; the timer fired first and the promise is
\* rejected with the timeout.
C13_Witness ==
  /\ probeLog = << "timeout" >>
  /\ probePromise = "rejected"
  /\ probeReason = "timeout"
  /\ sock = "destroyed"

LogHas(log, e) == \E i \in 1..Len(log) : log[i] = e

LogCount(log, e) == Cardinality({ i \in 1..Len(log) : log[i] = e })

\* C14: in a lookup session the query line is written once, at the 'connect'
\* event and not before; the promise is fulfilled only once 'end' has fired,
\* and no 'data' event (no growth of rawData) follows 'end': a result is never
\* produced from a buffer that can still grow.
C14_QueryOnceParseAtEnd ==
  (lookupPromise # "none")
    => /\ queryWrites <= 1
       /\ queryWrites = LogCount(lookupLog, "connect")
       /\ client = "connecting" => queryWrites = 0
       /\ \A i \in 1..Len(lookupLog) :
            lookupLog[i] \in {"data", "end"} =>
              /\ \E j \in 1..(i - 1) : lookupLog[j] = "connect"
              /\ \A j \in 1..(i - 1) : lookupLog[j] # "end"
       /\ lookupPromise = "fulfilled" => LogHas(lookupLog, "end")
       /\ LogHas(lookupLog, "end") => client \in {"ended", "closed"}

\* C14 witness: the query was sent once, two chunks arrived, the peer ended the
\* stream and a record was delivered.
C14_Witness ==
  /\ queryWrites = 1
  /\ lookupLog = << "connect", "data", "data", "end" >>
  /\ lookupPromise = "fulfilled"
  /\ ~lookupValue.isNull

\* C15: the process ends only by one of run()'s own process.exit calls (never
\* by an uncaught rejection), and at exit every rejection it awaited has become its
\* outcome: a failed resolution the resolution-error line (cli.js) or the
\* not-open and reason lines (part_000) with exit 1, a rejected probe the
\* not-open line with exit 1, a rejected lookup the ASN error line.
C15_NoUncaughtRejection ==
  /\ exit # << >> => pc = "exited"
  /\ (variant = "cli" /\ pc = "awaitLookup" /\ probePromise = "rejected")
       => (HasLine("PortNotOpen") /\ connectionError = probeReason)
  /\ pc = "exited" =>
       /\ exit \in { << 0 >>, << 1 >> }
       /\ dns = "failed" =>
            /\ exit = << 1 >>
            /\ IF variant = "cli"
               THEN HasLine("ResolveError")
               ELSE HasLine("PortNotOpen") /\ HasLine("Reason")
       /\ probePromise = "rejected" =>
            (HasLine("PortNotOpen") /\ exit = << 1 >>)
       /\ lookupPromise = "rejected" => HasLine("AsnError")

\* C15 witness: the probe and the lookup both rejected; run() printed both
\* outcomes and exited by its final process.exit.
C15_Witness ==
  /\ pc = "exited"
  /\ probePromise = "rejected"
  /\ lookupPromise = "rejected"
  /\ HasLine("PortNotOpen")
  /\ HasLine("AsnError")
  /\ exit = << 1 >>

\* C16: in one invocation dns.lookup, checkConnection and getAsnInfoFromCymru
\* are each called at most once (so never again after a failure), the lookup
\* only in cli.js with --asn, and the TCP sessions opened (probe and lookup)
\* number at most three.
C16_EachOperationOnce ==
  /\ LogCount(calls, "dns") <= 1
  /\ LogCount(calls, "probe") <= 1
  /\ LogCount(calls, "lookup") <= 1
  /\ LogCount(calls, "probe") + LogCount(calls, "lookup") <= 3
  /\ LogHas(calls, "lookup") => (variant = "cli" /\ asnFlag /\ LogHas(argv, AsnFlag))
  /\ dns # "idle" <=> LogHas(calls, "dns")
  /\ sock # "none" <=> LogHas(calls, "probe")
  /\ client # "none" <=> LogHas(calls, "lookup")

\* C16 witness: the probe timed out and the lookup failed; each operation was
\* started once and the process has exited.
C16_Witness ==
  /\ calls = << "dns", "probe", "lookup" >>
  /\ probeReason = "timeout"
  /\ lookupPromise = "rejected"
  /\ pc = "exited"

\* C17: in cli.js the lookup is started only after the probe has settled and
\* its result line has been printed: whenever the lookup has been called, the
\* probe is settled and the first output line is the probe line; every ASN
\* line or ASN error line comes after it.
C17_LookupAfterProbeLine ==
  (variant = "cli")
    => /\ (LogHas(calls, "lookup") \/ client # "none" \/ lookupPromise # "none") =>
            /\ probePromise \in Settled
            /\ calls = << "dns", "probe", "lookup" >>
            /\ Len(out) >= 1
            /\ out[1] = PortLine(probePromise = "fulfilled")
       /\ \A i \in 1..Len(out) :
            out[i].tag \in AsnTags =>
              (i > 1 /\ out[1].tag \in PortTags /\ LogHas(calls, "lookup"))

\* C17 witness: the probe failed, its line is printed, and the lookup session
\* has just been opened.
C17_Witness ==
  /\ variant = "cli"
  /\ client = "connecting"
  /\ lookupLog = << >>
  /\ probePromise = "rejected"
  /\ out = << PortLine(FALSE) >>

\* C18: in every step a settled lookup promise keeps its state and value; a
\* settled promise is the one the first of 'end' and 'error' decided; and what
\* run() reports at exit is that first settlement: the ASN error line exactly
\* when 'error' came first, the record or no-information line exactly when
\* 'end' came first, whatever fired afterwards.
C18_LookupSettlesOnce ==
  [][ /\ lookupPromise \in Settled =>
           (lookupPromise' = lookupPromise /\ lookupValue' = lookupValue)
      /\ lookupPromise' \in Settled =>
           lookupPromise' = (IF FirstLookupTerminal' = "end"
                             THEN "fulfilled" ELSE "rejected")
      /\ (pc' = "exited" /\ lookupPromise' # "none") =>
           /\ FirstLookupTerminal' \in {"end", "error"}
           /\ HasLine("AsnError")' <=> (FirstLookupTerminal' = "error")
           /\ HasLineIn(AsnTags \ {"AsnError"})' <=> (FirstLookupTerminal' = "end")
    ]_vars

\* C18 witness: 'end' delivered a record, an 'error' followed, and run() has
\* reported the record.
C18_Witness ==
  /\ lookupLog = << "connect", "data", "data", "end", "error" >>
  /\ lookupPromise = "fulfilled"
  /\ ~lookupValue.isNull
  /\ pc = "exited"
  /\ HasLine("ASN")
  /\ ~HasLine("AsnError")

\* Both arguments are present, as either variant sees them without --asn.
ArgsPresent ==
  /\ Len(argv) >= 2
  /\ argv[1] # << >>
  /\ argv[2] # << >>

\* C19: without --asn among the arguments, each variant's exit code is the same
\* function of the arguments' presence, the resolution outcome and the first
\* probe event: 0 when both arguments are present, resolution succeeded and
\* connect came first, 1 otherwise.
C19_VariantsAgreeOnExit ==
  (pc = "exited" /\ ~LogHas(argv, AsnFlag))
    => exit = << IF ArgsPresent /\ dns = "ok" /\ ProbeOpen THEN 0 ELSE 1 >>

\* C19 witness: part_000 found the resolution failing and exited with code 1.
C19_Witness ==
  /\ variant = "part000"
  /\ ~LogHas(argv, AsnFlag)
  /\ ArgsPresent
  /\ dns = "failed"
  /\ pc = "exited"
  /\ exit = << 1 >>

====
